---- MODULE Spec2Model ----
(***************************************************************************)
(* Live game-event ledger, validation gate, statistics aggregator and game *)
(* state machine of the Scoring Basket backend.                            *)
(*                                                                         *)
(* One game is modelled.  The repository holds two service variants that   *)
(* work on the same Game / GameEvent tables:                               *)
(*   - backend/services.py + backend/routes.py  (validation gate, live     *)
(*     statistics, start_game / end_game, record_event / undo_event);      *)
(*   - backend/app/services_games.py + backend/routes_games.py             *)
(*     (create_match, update_match, add_match_event, finalize_game,        *)
(*     update_game_score, manage_game_timeout).                            *)
(* services.py spells the lifecycle states "pending" / "active" and the    *)
(* acting column "player_id"; services_games.py and models.py spell them   *)
(* "scheduled" / "in_progress" and "user_id".  The model uses the          *)
(* models.py spelling for both variants.  services.py reads roster         *)
(* participants from GameRoster, which models.py declares as GamePlayer.   *)
(* Timestamps are abstracted to "set / unset".                             *)
(*                                                                         *)
(* routes.py declares its router twice; the handlers registered on the     *)
(* second one are plain functions without broadcasts (start_game,          *)
(* record_event, undo_event ...), the handlers of the first one are        *)
(* coroutines that schedule broadcast tasks (start_game_broadcast,         *)
(* record_event_broadcast, undo_event_broadcast ...).  Further parts: the  *)
(* realtime registry and room history (services_realtime.py), the          *)
(* Socket.IO rooms and broadcast coroutines (websocket.py), team           *)
(* membership (routes_games.py) and the career view (services_games.py).   *)
(***************************************************************************)
EXTENDS Integers, Sequences, FiniteSets, TLC

VARIABLES
    status,          \* Game.status, or "none" while the game row does not exist
    roster,          \* GamePlayer rows of the game: [user_id, team_id]
    events,          \* GameEvent rows of the game, in insertion order
    next_event_id,   \* next primary key of game_events
    home_score,      \* Game.home_score
    away_score,      \* Game.away_score
    timeout_active,  \* Game.timeout_active
    started_at,      \* Game.started_at is set
    ended_at,        \* Game.ended_at is set
    player_game_stats, \* PlayerGameStats rows of the game, in insertion order
    requests,        \* in-flight record_event requests: validated, not yet committed
    last,            \* the response of the most recent request
    finalizers,      \* in-flight GameService.finalize_game calls, one session each
    rooms,           \* ConnectionManager.rooms: game_id -> GameRoom.spectators
    connection_map,  \* ConnectionManager.connection_map: connection_id -> game_id
    active_connections, \* ConnectionManager.active_connections: connection_id -> info
    game_rooms,      \* websocket.game_rooms: game_id -> set of session ids
    sio_sessions,    \* session ids the Socket.IO server holds as connected
    events_history,  \* GameRoom.events_history of each room: game_id -> list of events
    broadcast_count, \* number of events each room has been handed since it was created
    tasks,           \* asyncio tasks the route handlers created that have not run yet
    emitted,         \* messages handed to sio.emit, in emission order
    team_members,    \* TeamMember rows of one team
    career_rows,     \* PlayerGameStats rows of one player, over all games
    career_view,     \* the answer of the most recent GameService.get_player_stats
    percentage       \* the most recent call of calculate_percentage and its result

team_vars == <<team_members>>
career_vars == <<career_rows, career_view, percentage>>

history_vars == <<events_history, broadcast_count>>
dispatch_vars == <<tasks, emitted>>
realtime_vars == <<rooms, connection_map, active_connections, game_rooms, sio_sessions,
                   history_vars, dispatch_vars>>

vars == <<status, roster, events, next_event_id, home_score, away_score,
          timeout_active, started_at, ended_at, player_game_stats, requests, last,
          finalizers, realtime_vars, team_vars, career_vars>>

(***************************************************************************)
(* Bounds                                                                  *)
(***************************************************************************)
MaxEvents == 2
MaxLedgerEvents == 3
MaxFoulEvents == 7
MaxRaceEvents == 7

(***************************************************************************)
(* Fixed data: two participating teams, one other team, the Player table   *)
(***************************************************************************)
HomeTeam == "A"
AwayTeam == "B"
OtherTeam == "C"
Teams == {HomeTeam, AwayTeam, OtherTeam}

None == 0
Players == {1, 2}
PlayerTeam == (1 :> HomeTeam) @@ (2 :> AwayTeam)

NoOutcome == "none"


(***************************************************************************)
(* Query helpers                                                           *)
(***************************************************************************)
\* GameRoster rows of the game, one per rostered player
RosterPlayers(ros) == {r.user_id : r \in ros}

(***************************************************************************)
(* StatsCalculationService  (services.py)                                  *)
(***************************************************************************)
RECURSIVE points_loop(_, _)
points_loop(evs, points) ==
    IF evs = <<>> THEN points
    ELSE LET event == Head(evs) IN
         points_loop(Tail(evs),
            IF event.outcome = "made"
            THEN IF event.event_type = "2PT" THEN points + 2
                 ELSE IF event.event_type = "3PT" THEN points + 3
                 ELSE IF event.event_type = "FT" THEN points + 1
                 ELSE points
            ELSE points)

calculate_points(evs, player_id) ==
    points_loop(SelectSeq(evs, LAMBDA e : e.user_id = player_id), 0)

\* Returns <<made, attempts>>
calculate_field_goals(evs, player_id, event_type) ==
    LET sel == SelectSeq(evs, LAMBDA e : e.user_id = player_id /\ e.event_type = event_type)
        made == Len(SelectSeq(sel, LAMBDA e : e.outcome = "made"))
        attempts == Len(sel)
    IN  <<made, attempts>>

calculate_assists(evs, player_id) ==
    Len(SelectSeq(evs, LAMBDA e : e.user_id = player_id /\ e.event_type = "AST"))

calculate_rebounds(evs, player_id) ==
    Len(SelectSeq(evs, LAMBDA e : e.user_id = player_id /\ e.event_type = "REB"))

calculate_fouls(evs, player_id) ==
    Len(SelectSeq(evs, LAMBDA e : e.user_id = player_id /\ e.event_type = "FLS"))

get_player_stats(evs, player_id) ==
    LET two == calculate_field_goals(evs, player_id, "2PT")
        three == calculate_field_goals(evs, player_id, "3PT")
        ft == calculate_field_goals(evs, player_id, "FT")
    IN  [player_id |-> player_id,
         points |-> calculate_points(evs, player_id),
         fga |-> two[2] + three[2],
         fgm |-> two[1] + three[1],
         three_pa |-> three[2],
         three_pm |-> three[1],
         fta |-> ft[2],
         ftm |-> ft[1],
         ast |-> calculate_assists(evs, player_id),
         reb |-> calculate_rebounds(evs, player_id),
         fls |-> calculate_fouls(evs, player_id)]

RECURSIVE team_loop(_, _, _)
team_loop(evs, rosters, acc) ==
    IF rosters = {} THEN acc
    ELSE LET player_id == CHOOSE p \in rosters : TRUE
             player_stat == get_player_stats(evs, player_id)
         IN  team_loop(evs, rosters \ {player_id},
                       [acc EXCEPT !.points = @ + player_stat.points,
                                   !.fouls = @ + player_stat.fls,
                                   !.players = @ \cup {player_stat}])

get_team_stats(evs, ros, team_id) ==
    LET rosters == {p \in RosterPlayers(ros) : p \in DOMAIN PlayerTeam /\ PlayerTeam[p] = team_id}
        team_timeouts == Len(SelectSeq(evs, LAMBDA e : e.team_id = team_id /\ e.event_type = "TO"))
    IN  team_loop(evs, rosters,
                  [team_id |-> team_id, points |-> 0, fouls |-> 0,
                   timeouts |-> team_timeouts, players |-> {}])

(***************************************************************************)
(* GameStateService  (services.py)                                         *)
(***************************************************************************)
VALID_TRANSITIONS ==
    [from_status \in {"scheduled", "in_progress", "completed"} |->
        CASE from_status = "scheduled" -> {"in_progress"}
          [] from_status = "in_progress" -> {"completed", "scheduled"}
          [] from_status = "completed" -> {}]

can_transition(from_status, to_status) ==
    LET allowed == IF from_status \in DOMAIN VALID_TRANSITIONS
                   THEN VALID_TRANSITIONS[from_status] ELSE {}
    IN  to_status \in allowed

(***************************************************************************)
(* EventValidationService  (services.py)                                   *)
(***************************************************************************)
FoulLimit == 6

player_required_events == {"2PT", "3PT", "FT", "AST", "REB", "FLS", "SUB"}
valid_events == {"2PT", "3PT", "FT", "AST", "REB", "FLS", "SUB", "TO",
                 "PERIOD_START", "PERIOD_END"}

Ok == [ok |-> TRUE, reason |-> ""]
Rejected(reason) == [ok |-> FALSE, reason |-> reason]

\* the vocabulary check done first
validate_event_type_first(st, ros, evs, player_id, team_id, event_type, period) ==
    IF event_type \notin valid_events THEN Rejected("Invalid event type")
    ELSE IF st = "none" THEN Rejected("Game not found")
    ELSE IF st # "in_progress" THEN Rejected("Game is not active")
    ELSE IF period < 1 \/ period > 5 THEN Rejected("Period must be between 1 and 5")
    ELSE IF team_id \notin Teams THEN Rejected("Team not found")
    ELSE IF ~(team_id = HomeTeam \/ team_id = AwayTeam) THEN Rejected("Team is not in this game")
    ELSE IF event_type \in player_required_events /\ player_id = None
         THEN Rejected("Event type requires a player")
    ELSE IF event_type \in player_required_events /\ player_id \notin Players
         THEN Rejected("Player not found")
    ELSE IF event_type \in player_required_events /\ player_id \notin RosterPlayers(ros)
         THEN Rejected("Player is not in game roster")
    ELSE IF event_type \in player_required_events /\ PlayerTeam[player_id] # team_id
         THEN Rejected("Player does not belong to the event team")
    ELSE IF event_type \in player_required_events /\ event_type = "FLS"
            /\ Len(SelectSeq(evs, LAMBDA e : e.user_id = player_id /\ e.event_type = "FLS")) >= FoulLimit
         THEN Rejected("Player has been disqualified (6 fouls)")
    ELSE Ok

validate_event(st, ros, evs, player_id, team_id, event_type, period) ==
    IF st = "none" THEN Rejected("Game not found")
    ELSE IF st # "in_progress" THEN Rejected("Game is not active")
    ELSE IF period < 1 \/ period > 5 THEN Rejected("Period must be between 1 and 5")
    ELSE IF team_id \notin Teams THEN Rejected("Team not found")
    ELSE IF ~(team_id = HomeTeam \/ team_id = AwayTeam) THEN Rejected("Team is not in this game")
    ELSE IF event_type \in player_required_events /\ player_id = None
         THEN Rejected("Event type requires a player")
    ELSE IF event_type \in player_required_events /\ player_id \notin Players
         THEN Rejected("Player not found")
    ELSE IF event_type \in player_required_events /\ player_id \notin RosterPlayers(ros)
         THEN Rejected("Player is not in game roster")
    ELSE IF event_type \in player_required_events /\ PlayerTeam[player_id] # team_id
         THEN Rejected("Player does not belong to the event team")
    ELSE IF event_type \in player_required_events /\ event_type = "FLS"
            /\ Len(SelectSeq(evs, LAMBDA e : e.user_id = player_id /\ e.event_type = "FLS")) >= FoulLimit
         THEN Rejected("Player has been disqualified (6 fouls)")
    ELSE IF event_type \notin valid_events THEN Rejected("Invalid event type")
    ELSE Ok

validate_shot_outcome(event_type, outcome) ==
    IF event_type \in {"2PT", "3PT", "FT"} /\ outcome \notin {"made", "miss"}
    THEN Rejected("Shot event must have outcome 'made' or 'miss'")
    ELSE Ok

(***************************************************************************)
(* Request schemas                                                         *)
(***************************************************************************)
\* schemas.py GameEventCreate: event_type is an EventType, period in 1..5,
\* outcome is an EventOutcome or absent
EventType == {"2PT", "3PT", "FT", "AST", "REB", "FLS", "SUB", "TO",
              "PERIOD_START", "PERIOD_END"}

GameEventCreate(e) ==
    /\ e.event_type \in EventType
    /\ e.period >= 1 /\ e.period <= 5
    /\ e.outcome \in {"made", "miss", NoOutcome}

\* schemas_games.py GameEventCreate: event_type and outcome are free strings
GameEventCreateGames(e) ==
    e.period >= 1 /\ e.period <= 5

(***************************************************************************)
(* GameService.finalize_game  (services_games.py)                          *)
(***************************************************************************)
ZeroStats ==
    [points |-> 0, assists |-> 0, rebounds |-> 0, fouls |-> 0, violations |-> 0,
     shots_made |-> 0, shots_attempted |-> 0,
     two_pointers_made |-> 0, two_pointers_attempted |-> 0,
     three_pointers_made |-> 0, three_pointers_attempted |-> 0,
     free_throws_made |-> 0, free_throws_attempted |-> 0]

foul_event_types == {"FLS", "FOUL_BLOCKING", "FOUL_CHARGING", "FOUL_HOLDING",
                     "FOUL_PUSHING", "FOUL_HAND_CHECKING", "FOUL_ILLEGAL_SCREEN",
                     "FOUL_ELBOWING", "FOUL_SHOOTING"}
violation_event_types == {"VIOLATION_TRAVELING", "VIOLATION_DOUBLE_DRIBBLE"}

\* one pass of the body of "for event in events" on the stats of its player
\* a made shot counts as made without counting as attempted
process_event_made_only(stats, event) ==
    IF event.event_type = "2PT" THEN
        IF event.outcome = "made"
        THEN [stats EXCEPT !.points = @ + 2, !.shots_made = @ + 1, !.two_pointers_made = @ + 1]
        ELSE [stats EXCEPT !.shots_attempted = @ + 1, !.two_pointers_attempted = @ + 1]
    ELSE stats

process_event(stats, event) ==
    IF event.event_type = "2PT" THEN
        LET s1 == [stats EXCEPT !.shots_attempted = @ + 1, !.two_pointers_attempted = @ + 1]
        IN  IF event.outcome = "made"
            THEN [s1 EXCEPT !.points = @ + 2, !.shots_made = @ + 1, !.two_pointers_made = @ + 1]
            ELSE s1
    ELSE IF event.event_type = "3PT" THEN
        LET s1 == [stats EXCEPT !.shots_attempted = @ + 1, !.three_pointers_attempted = @ + 1]
        IN  IF event.outcome = "made"
            THEN [s1 EXCEPT !.points = @ + 3, !.shots_made = @ + 1, !.three_pointers_made = @ + 1]
            ELSE s1
    ELSE IF event.event_type = "FT" THEN
        LET s1 == [stats EXCEPT !.free_throws_attempted = @ + 1]
        IN  IF event.outcome = "made"
            THEN [s1 EXCEPT !.points = @ + 1, !.free_throws_made = @ + 1]
            ELSE s1
    ELSE IF event.event_type = "AST" THEN [stats EXCEPT !.assists = @ + 1]
    ELSE IF event.event_type = "REB" THEN [stats EXCEPT !.rebounds = @ + 1]
    ELSE IF event.event_type \in foul_event_types THEN [stats EXCEPT !.fouls = @ + 1]
    ELSE IF event.event_type \in violation_event_types THEN [stats EXCEPT !.violations = @ + 1]
    ELSE stats

\* the player_stats dictionary: <<keys in insertion order, key -> stats>>
RECURSIVE accumulate_player_stats(_, _, _)
accumulate_player_stats(evs, keys, player_stats) ==
    IF evs = <<>> THEN <<keys, player_stats>>
    ELSE LET event == Head(evs) IN
         IF event.user_id = None
         THEN accumulate_player_stats(Tail(evs), keys, player_stats)
         ELSE LET known == event.user_id \in DOMAIN player_stats
                  stats == IF known THEN player_stats[event.user_id] ELSE ZeroStats
                  keys1 == IF known THEN keys ELSE Append(keys, event.user_id)
                  new == process_event(stats, event)
              IN  accumulate_player_stats(Tail(evs), keys1,
                     [p \in DOMAIN player_stats \cup {event.user_id} |->
                        IF p = event.user_id THEN new ELSE player_stats[p]])

EmptyDict == [p \in {} |-> ZeroStats]

StatsRow(player_id, stats) == [player_id |-> player_id, stats |-> stats]

\* the "for player_id, stats in player_stats.items()" loop on the rows of the game
RECURSIVE upsert_player_stats(_, _, _)
upsert_player_stats(keys, player_stats, rows) ==
    IF keys = <<>> THEN rows
    ELSE LET player_id == Head(keys)
             existing == {i \in 1..Len(rows) : rows[i].player_id = player_id}
         IN  IF existing # {}
             THEN LET first == CHOOSE i \in existing : \A j \in existing : i <= j
                  IN  upsert_player_stats(Tail(keys), player_stats,
                         [rows EXCEPT ![first] = StatsRow(player_id, player_stats[player_id])])
             ELSE upsert_player_stats(Tail(keys), player_stats,
                         Append(rows, StatsRow(player_id, player_stats[player_id])))

\* insert a row per player of the fold without looking for an existing one
finalize_rows_insert(evs, rows) ==
    LET dict == accumulate_player_stats(evs, <<>>, EmptyDict)
    IN  rows \o [i \in 1..Len(dict[1]) |-> StatsRow(dict[1][i], dict[2][dict[1][i]])]

finalize_rows(evs, rows) ==
    LET dict == accumulate_player_stats(evs, <<>>, EmptyDict)
    IN  upsert_player_stats(dict[1], dict[2], rows)

(***************************************************************************)
(* State                                                                   *)
(***************************************************************************)
NoEvent == [user_id |-> None, team_id |-> "", event_type |-> "", period |-> 0,
            outcome |-> NoOutcome]
Reqs == {1, 2}
NoRequest == [pending |-> FALSE, event |-> NoEvent]

\* a finalize_game call: its position, the fold it computed, the players still
\* to write, the rows added to its session and not yet committed, and the
\* rows, status and end time it found when it was called
NoFinalize == [pc |-> "idle", keys |-> <<>>, player_stats |-> EmptyDict, added |-> <<>>,
               rows_before |-> <<>>, status_before |-> "none", ended_before |-> FALSE]

\* a dictionary with no keys
NoKeys == [k \in {} |-> 0]

Response(op, res, event) == [op |-> op, ok |-> res.ok, reason |-> res.reason, event |-> event]

\* the TeamMember row routes_games.create_team makes for the creator of the team
TeamOwnerId == 1
TeamOwner ==
    [user_id |-> TeamOwnerId, role |-> "admin", is_admin |-> TRUE, is_captain |-> FALSE,
     is_vice_captain |-> FALSE, status |-> "active"]

\* the answer of get_player_stats before any call
NoCareerView ==
    [total_games |-> 0, total_points |-> 0, average_points_per_game |-> 0,
     total_shots_made |-> 0, total_shots_attempted |-> 0,
     career_shooting_percentage |-> 0, ok |-> TRUE]

Init ==
    /\ status = "none"
    /\ roster = {}
    /\ events = <<>>
    /\ next_event_id = 1
    /\ home_score = 0
    /\ away_score = 0
    /\ timeout_active = FALSE
    /\ started_at = FALSE
    /\ ended_at = FALSE
    /\ player_game_stats = <<>>
    /\ requests = [r \in Reqs |-> NoRequest]
    /\ last = Response("init", Ok, NoEvent)
    /\ finalizers = [r \in Reqs |-> NoFinalize]
    /\ rooms = NoKeys
    /\ connection_map = NoKeys
    /\ active_connections = NoKeys
    /\ game_rooms = NoKeys
    /\ sio_sessions = {}
    /\ events_history = NoKeys
    /\ broadcast_count = NoKeys
    /\ tasks = <<>>
    /\ emitted = <<>>
    /\ team_members = {TeamOwner}
    /\ career_rows = <<>>
    /\ career_view = NoCareerView
    /\ percentage = [made |-> 0, attempts |-> 0, result |-> 0]

GameEventRow(id, e) ==
    [id |-> id, user_id |-> e.user_id, team_id |-> e.team_id,
     event_type |-> e.event_type, period |-> e.period, outcome |-> e.outcome]

(***************************************************************************)
(* Game lifecycle                                                          *)
(***************************************************************************)
\* routes_games.create_game -> GameService.create_match
create_game(home_players, away_players) ==
    /\ status = "none"
    /\ status' = "scheduled"
    /\ roster' = {[user_id |-> u, team_id |-> HomeTeam] : u \in home_players}
                 \cup {[user_id |-> u, team_id |-> AwayTeam] : u \in away_players}
    /\ last' = Response("create_game", Ok, NoEvent)
    /\ UNCHANGED <<home_score, away_score, timeout_active, started_at, ended_at,
                   events, next_event_id, player_game_stats, requests>>
    /\ UNCHANGED <<finalizers, realtime_vars, team_vars, career_vars>>

\* routes.start_game -> GameStateService.start_game
start_game ==
    LET res == IF status = "none" THEN Rejected("Game not found")
               ELSE IF status = "in_progress" THEN Rejected("Game is already active")
               ELSE IF ~can_transition(status, "in_progress")
                    THEN Rejected("Cannot transition to active")
               ELSE IF Cardinality(RosterPlayers(roster)) = 0
                    THEN Rejected("Game has no players in roster")
               ELSE Ok
    IN  /\ last' = Response("start_game", res, NoEvent)
        /\ IF res.ok
           THEN status' = "in_progress" /\ started_at' = TRUE
           ELSE UNCHANGED <<status, started_at>>
        /\ UNCHANGED <<roster, home_score, away_score, timeout_active, ended_at,
                       events, next_event_id, player_game_stats, requests>>
        /\ UNCHANGED <<finalizers, realtime_vars, team_vars, career_vars>>

\* routes.end_game -> GameStateService.end_game
end_game ==
    LET res == IF status = "none" THEN Rejected("Game not found")
               ELSE IF status = "completed" THEN Rejected("Game is already completed")
               ELSE IF ~can_transition(status, "completed")
                    THEN Rejected("Cannot transition to completed")
               ELSE Ok
    IN  /\ last' = Response("end_game", res, NoEvent)
        /\ IF res.ok
           THEN status' = "completed" /\ ended_at' = TRUE
           ELSE UNCHANGED <<status, ended_at>>
        /\ UNCHANGED <<roster, home_score, away_score, timeout_active, started_at,
                       events, next_event_id, player_game_stats, requests>>
        /\ UNCHANGED <<finalizers, realtime_vars, team_vars, career_vars>>

\* GameService.update_match: "if status: match.status = status"
update_match(new_status) == IF new_status # "" THEN new_status ELSE status

\* routes_games.update_game -> GameService.update_match
update_game(is_creator, new_status) ==
    LET res == IF status = "none" THEN Rejected("Game not found")
               ELSE IF ~is_creator THEN Rejected("Not game creator")
               ELSE Ok
    IN  /\ last' = Response("update_game", res, NoEvent)
        /\ status' = IF res.ok THEN update_match(new_status) ELSE status
        /\ UNCHANGED <<roster, home_score, away_score, timeout_active, started_at, ended_at,
                       events, next_event_id, player_game_stats, requests>>
        /\ UNCHANGED <<finalizers, realtime_vars, team_vars, career_vars>>

\* routes_games.cancel_game -> GameService.cancel_match
cancel_game(is_creator) ==
    LET res == IF status = "none" THEN Rejected("Game not found")
               ELSE IF ~is_creator THEN Rejected("Not game creator")
               ELSE Ok
    IN  /\ last' = Response("cancel_game", res, NoEvent)
        /\ status' = IF res.ok THEN update_match("cancelled") ELSE status
        /\ UNCHANGED <<roster, home_score, away_score, timeout_active, started_at, ended_at,
                       events, next_event_id, player_game_stats, requests>>
        /\ UNCHANGED <<finalizers, realtime_vars, team_vars, career_vars>>

(***************************************************************************)
(* Event ledger                                                            *)
(***************************************************************************)
\* db.add(GameEvent(...)); db.commit()
append_event(e) ==
    /\ events' = Append(events, GameEventRow(next_event_id, e))
    /\ next_event_id' = next_event_id + 1

\* routes_games.add_game_event -> GameService.add_match_event
add_game_event(e) ==
    LET res == IF ~GameEventCreateGames(e) THEN Rejected("422")
               ELSE IF status = "none" THEN Rejected("Game not found")
               ELSE Ok
    IN  /\ last' = Response("add_game_event", res, e)
        /\ IF res.ok THEN append_event(e) ELSE UNCHANGED <<events, next_event_id>>
        /\ UNCHANGED <<status, roster, home_score, away_score, timeout_active,
                       started_at, ended_at, player_game_stats, requests>>
        /\ UNCHANGED <<finalizers, realtime_vars, team_vars, career_vars>>

\* the checks of routes.record_event before the insert
record_event_checks(e) ==
    IF ~GameEventCreate(e) THEN Rejected("422")
    ELSE LET v == validate_event(status, roster, events, e.user_id, e.team_id,
                                 e.event_type, e.period)
         IN  IF ~v.ok THEN v
             ELSE IF e.event_type \in {"2PT", "3PT", "FT"}
                  THEN validate_shot_outcome(e.event_type, e.outcome)
                  ELSE Ok

\* routes.record_event, one request at a time
record_event(e) ==
    LET res == record_event_checks(e)
    IN  /\ last' = Response("record_event", res, e)
        /\ IF res.ok THEN append_event(e) ELSE UNCHANGED <<events, next_event_id>>
        /\ UNCHANGED <<status, roster, home_score, away_score, timeout_active,
                       started_at, ended_at, player_game_stats, requests>>
        /\ UNCHANGED <<finalizers, realtime_vars, team_vars, career_vars>>

\* routes.record_event of request r up to the end of its validation
record_event_validate(r, e) ==
    LET res == record_event_checks(e)
    IN  /\ ~requests[r].pending
        /\ IF res.ok
           THEN /\ requests' = [requests EXCEPT ![r] = [pending |-> TRUE, event |-> e]]
                /\ UNCHANGED last
           ELSE /\ last' = Response("record_event", res, e)
                /\ UNCHANGED requests
        /\ UNCHANGED <<status, roster, home_score, away_score, timeout_active,
                       started_at, ended_at, player_game_stats, events, next_event_id>>
        /\ UNCHANGED <<finalizers, realtime_vars, team_vars, career_vars>>

\* routes.record_event of request r from db.add to db.commit
record_event_commit(r) ==
    /\ requests[r].pending
    /\ append_event(requests[r].event)
    /\ requests' = [requests EXCEPT ![r] = NoRequest]
    /\ last' = Response("record_event", Ok, requests[r].event)
    /\ UNCHANGED <<status, roster, home_score, away_score, timeout_active,
                   started_at, ended_at, player_game_stats>>
    /\ UNCHANGED <<finalizers, realtime_vars, team_vars, career_vars>>

\* the delete takes every later row with it
delete_event_and_later(evs, event_id) == SelectSeq(evs, LAMBDA e : e.id < event_id)

\* the ledger without the row of primary key event_id
delete_event(evs, event_id) == SelectSeq(evs, LAMBDA e : e.id # event_id)

EventIds(evs) == {evs[i].id : i \in 1..Len(evs)}

\* routes.undo_event
undo_event(event_id) ==
    LET res == IF event_id \notin EventIds(events) THEN Rejected("Event not found") ELSE Ok
    IN  /\ last' = [Response("undo_event", res, NoEvent) EXCEPT
                       !.event = IF res.ok
                                 THEN LET row == CHOOSE x \in {events[i] : i \in 1..Len(events)} :
                                                     x.id = event_id
                                      IN  [user_id |-> row.user_id, team_id |-> row.team_id,
                                           event_type |-> row.event_type, period |-> row.period,
                                           outcome |-> row.outcome]
                                 ELSE NoEvent]
        /\ events' = IF res.ok THEN delete_event(events, event_id) ELSE events
        /\ UNCHANGED <<status, roster, home_score, away_score, timeout_active, started_at,
                       ended_at, player_game_stats, requests, next_event_id>>
        /\ UNCHANGED <<finalizers, realtime_vars, team_vars, career_vars>>

(***************************************************************************)
(* Score, timeout, finalize  (routes_games.py)                             *)
(***************************************************************************)
\* routes_games.update_game_score -> GameService.update_match_score
\* the score update without the timeout gate
update_game_score_ungated(home, away) ==
    LET res == IF status = "none" THEN Rejected("Game not found") ELSE Ok
    IN  /\ last' = Response("update_game_score", res, NoEvent)
        /\ IF res.ok
           THEN home_score' = home /\ away_score' = away
           ELSE UNCHANGED <<home_score, away_score>>
        /\ UNCHANGED <<status, roster, timeout_active, started_at, ended_at,
                       events, next_event_id, player_game_stats, requests>>
        /\ UNCHANGED <<finalizers, realtime_vars, team_vars, career_vars>>

update_game_score(home, away) ==
    LET res == IF status = "none" THEN Rejected("Game not found")
               ELSE IF timeout_active THEN Rejected("Scoring is disabled during timeout")
               ELSE Ok
    IN  /\ last' = Response("update_game_score", res, NoEvent)
        /\ IF res.ok
           THEN home_score' = home /\ away_score' = away
           ELSE UNCHANGED <<home_score, away_score>>
        /\ UNCHANGED <<status, roster, timeout_active, started_at, ended_at,
                       events, next_event_id, player_game_stats, requests>>
        /\ UNCHANGED <<finalizers, realtime_vars, team_vars, career_vars>>

\* routes_games.manage_game_timeout
manage_game_timeout(is_admin, action) ==
    LET res == IF status = "none" THEN Rejected("Game not found")
               ELSE IF ~is_admin THEN Rejected("Not authorized to manage timeout for this game")
               ELSE IF action \notin {"start", "revoke"} THEN Rejected("Invalid action")
               ELSE Ok
    IN  /\ last' = Response("manage_game_timeout", res, NoEvent)
        /\ timeout_active' = IF res.ok THEN (action = "start") ELSE timeout_active
        /\ UNCHANGED <<status, roster, home_score, away_score, started_at, ended_at,
                       events, next_event_id, player_game_stats, requests>>
        /\ UNCHANGED <<finalizers, realtime_vars, team_vars, career_vars>>

\* routes_games.finalize_game -> GameService.finalize_game
finalize_game(is_admin) ==
    LET res == IF status = "none" THEN Rejected("Game not found")
               ELSE IF ~is_admin THEN Rejected("Not authorized to end this game")
               ELSE Ok
    IN  /\ last' = Response("finalize_game", res, NoEvent)
        /\ IF res.ok
           THEN /\ player_game_stats' = finalize_rows(events, player_game_stats)
                /\ status' = "completed"
                /\ ended_at' = TRUE
           ELSE UNCHANGED <<player_game_stats, status, ended_at>>
        /\ UNCHANGED <<roster, home_score, away_score, timeout_active, started_at,
                       events, next_event_id, requests>>
        /\ UNCHANGED <<finalizers, realtime_vars, team_vars, career_vars>>

(***************************************************************************)
(* Requests drawn by the specifications                                    *)
(***************************************************************************)
Event(u, t, ty, per, out) ==
    [user_id |-> u, team_id |-> t, event_type |-> ty, period |-> per, outcome |-> out]

ShotTypes == {"2PT", "3PT", "FT"}

\* made and missed shots of the three classes, a foul, a team timeout
CoreInputs ==
    {Event(1, HomeTeam, "2PT", 1, "made"), Event(1, HomeTeam, "2PT", 1, "miss"),
     Event(1, HomeTeam, "3PT", 1, "made"), Event(2, AwayTeam, "FT", 1, "made"),
     Event(1, HomeTeam, "FLS", 1, NoOutcome), Event(None, HomeTeam, "TO", 1, NoOutcome)}

\* a player event and a team event, for the specification of the whole lifecycle
LifecycleInputs ==
    {Event(1, HomeTeam, "2PT", 1, "made"), Event(None, HomeTeam, "TO", 1, NoOutcome)}

\* home_players, away_players of a create_game request
RosterInputs == {<<{}, {}>>, <<{1}, {2}>>}
ScoreInputs == {<<2, 0>>, <<2, 3>>}
StatusInputs == {"", "scheduled", "in_progress", "completed", "cancelled"}
TimeoutActions == {"start", "revoke", "pause"}

Next ==
    \/ \E ro \in RosterInputs : create_game(ro[1], ro[2])
    \/ start_game
    \/ end_game
    \/ \E c \in BOOLEAN, st \in StatusInputs : update_game(c, st)
    \/ \E c \in BOOLEAN : cancel_game(c)
    \/ \E e \in LifecycleInputs : next_event_id <= MaxEvents /\ add_game_event(e)
    \/ \E e \in LifecycleInputs : next_event_id <= MaxEvents /\ record_event(e)
    \/ \E id \in 1..MaxEvents : undo_event(id)
    \/ \E sc \in ScoreInputs : update_game_score(sc[1], sc[2])
    \/ \E a \in BOOLEAN, act \in TimeoutActions : manage_game_timeout(a, act)
    \/ \E a \in BOOLEAN : finalize_game(a)

Spec == Init /\ [][Next]_vars


(***************************************************************************)
(* The ledger and its statistics: the requests that write or fold events   *)
(***************************************************************************)
NextLedger ==
    \/ \E ro \in RosterInputs : create_game(ro[1], ro[2])
    \/ start_game
    \/ \E e \in CoreInputs : next_event_id <= MaxLedgerEvents /\ add_game_event(e)
    \/ \E e \in CoreInputs : next_event_id <= MaxLedgerEvents /\ record_event(e)
    \/ \E id \in 1..MaxLedgerEvents : undo_event(id)
    \/ finalize_game(TRUE)

SpecLedger == Init /\ [][NextLedger]_vars

(***************************************************************************)
(* Fouls of one rostered player, through both append routes                *)
(***************************************************************************)
FoulInputs ==
    {Event(1, HomeTeam, "FLS", 1, NoOutcome),
     Event(1, HomeTeam, "FOUL_SHOOTING", 1, NoOutcome)}

NextFoul ==
    \/ \E ro \in RosterInputs : create_game(ro[1], ro[2])
    \/ start_game
    \/ \E e \in FoulInputs : next_event_id <= MaxFoulEvents /\ add_game_event(e)
    \/ \E e \in FoulInputs : next_event_id <= MaxFoulEvents /\ record_event(e)
    \/ \E id \in 1..MaxFoulEvents : undo_event(id)

SpecFoul == Init /\ [][NextFoul]_vars

(***************************************************************************)
(* Concurrent record_event requests: routes.record_event is a plain "def"  *)
(* route, run on worker threads that share one database connection, so the *)
(* validation of one request and the commit of another interleave          *)
(***************************************************************************)
RaceInputs ==
    {Event(1, HomeTeam, "FLS", 1, NoOutcome), Event(2, AwayTeam, "FLS", 1, NoOutcome)}

PendingRequests == Cardinality({r \in Reqs : requests[r].pending})

NextRace ==
    \/ \E ro \in RosterInputs : create_game(ro[1], ro[2])
    \/ start_game
    \/ \E r \in Reqs, e \in RaceInputs :
          next_event_id + PendingRequests <= MaxRaceEvents /\ record_event_validate(r, e)
    \/ \E r \in Reqs : record_event_commit(r)

SpecRace == Init /\ [][NextRace]_vars

(***************************************************************************)
(* Properties                                                              *)
(***************************************************************************)
AppendOps == {"record_event", "add_game_event"}

\* the number of foul-type events (FLS or FOUL_*) of player p in the ledger
FoulTypeCount(evs, p) ==
    Len(SelectSeq(evs, LAMBDA e : e.user_id = p /\ e.event_type \in foul_event_types))

\* C1: no player ever has more than 6 foul-type events recorded in the game's
\* ledger; a foul-type event for a player who has 6 is rejected, not appended.
C1_FoulCap == \A p \in Players : FoulTypeCount(events, p) <= FoulLimit

\* C2: under any interleaving of concurrent record_event requests (validate,
\* then append and commit) the validation gate's foul tally of a player never
\* exceeds 6: two requests that validate at tally 5 do not both append.
C2_SerializedFoulCap == \A p \in Players : calculate_fouls(events, p) <= FoulLimit

\* C3: an event is appended only while the game is in progress: an append
\* attempted on a scheduled, completed or cancelled game is rejected as
\* "not active" and leaves the ledger unchanged.
C3_AppendOnlyInProgress ==
    [][ /\ Len(events') > Len(events) => status = "in_progress"
        /\ (last'.op \in AppendOps /\ status \in {"scheduled", "completed", "cancelled"}
              /\ last'.event.period \in 1..5)
           => (~last'.ok /\ last'.reason = "Game is not active" /\ events' = events) ]_vars

\* C4: for a rostered player of a participating team in an in-progress game a
\* FOUL_SHOOTING append is accepted while the player has fewer than six of
\* them, and with six it is rejected with the disqualification reason and
\* the ledger keeps exactly six.
FoulShootingCount(evs, p) ==
    Len(SelectSeq(evs, LAMBDA e : e.user_id = p /\ e.event_type = "FOUL_SHOOTING"))

C4_SeventhFoulShootingRejected ==
    [][ (/\ last'.op \in AppendOps
         /\ last'.event = Event(1, HomeTeam, "FOUL_SHOOTING", 1, NoOutcome)
         /\ status = "in_progress"
         /\ 1 \in RosterPlayers(roster))
        => IF FoulShootingCount(events, 1) < FoulLimit
           THEN last'.ok /\ FoulShootingCount(events', 1) = FoulShootingCount(events, 1) + 1
           ELSE /\ ~last'.ok
                /\ last'.reason = "Player has been disqualified (6 fouls)"
                /\ events' = events ]_vars

\* C8: while the timeout is active a direct score update is rejected with the
\* timeout error and both scores stay; with no timeout active (so right
\* after a revoke) the update succeeds and sets both scores.
C8_TimeoutGatesScore ==
    [][ last'.op = "update_game_score" =>
          IF timeout_active
          THEN /\ ~last'.ok
               /\ last'.reason = "Scoring is disabled during timeout"
               /\ home_score' = home_score /\ away_score' = away_score
          ELSE status # "none" =>
               /\ last'.ok
               /\ <<home_score', away_score'>> \in ScoreInputs ]_vars

C8_Witness ==
    /\ last.op = "update_game_score"
    /\ ~last.ok
    /\ last.reason = "Scoring is disabled during timeout"
    /\ timeout_active
    /\ status = "in_progress"

\* C10: a game is in progress only if its roster has a participant: starting
\* a scheduled game with an empty roster fails and leaves it scheduled.
C10_InProgressNeedsRoster ==
    status = "in_progress" => RosterPlayers(roster) # {}

\* the ledger operations around a delete and re-add
MaxUndoEvents == 3

UndoInputs ==
    { Event(1, HomeTeam, "2PT", 1, "made"),
      Event(2, AwayTeam, "FT", 1, "miss"),
      Event(1, HomeTeam, "FLS", 2, NoOutcome),
      Event(2, AwayTeam, "AST", 2, NoOutcome),
      Event(None, HomeTeam, "TO", 2, NoOutcome) }

NextUndo ==
    \/ \E r \in RosterInputs : create_game(r[1], r[2])
    \/ start_game
    \/ \E e \in UndoInputs : next_event_id <= MaxUndoEvents /\ record_event(e)
    \/ \E e \in UndoInputs : next_event_id <= MaxUndoEvents /\ add_game_event(e)
    \/ \E id \in 1..MaxUndoEvents : undo_event(id)

SpecUndo == Init /\ [][NextUndo]_vars

(***************************************************************************)
(* Statistics                                                              *)
(***************************************************************************)
Rows(rows) == {rows[i] : i \in 1..Len(rows)}

\* C5: for every player and shot class, made <= attempted in the live
\* statistics and in every PlayerGameStats row, after any appends and deletes.
C5_MadeLeAttempted ==
    /\ \A p \in Players :
          /\ \A ty \in ShotTypes :
                calculate_field_goals(events, p, ty)[1] <= calculate_field_goals(events, p, ty)[2]
          /\ LET st == get_player_stats(events, p)
             IN  st.fgm <= st.fga /\ st.three_pm <= st.three_pa /\ st.ftm <= st.fta
    /\ \A row \in Rows(player_game_stats) :
          /\ row.stats.two_pointers_made <= row.stats.two_pointers_attempted
          /\ row.stats.three_pointers_made <= row.stats.three_pointers_attempted
          /\ row.stats.free_throws_made <= row.stats.free_throws_attempted
          /\ row.stats.shots_made <= row.stats.shots_attempted

\* a finalized row and the live statistics both hold a made and a missed shot
C5_Witness ==
    /\ \E row \in Rows(player_game_stats) :
          row.stats.two_pointers_made >= 1
          /\ row.stats.two_pointers_attempted > row.stats.two_pointers_made
    /\ \E p \in Players :
          calculate_field_goals(events, p, "2PT")[1] >= 1
          /\ calculate_field_goals(events, p, "2PT")[2] > calculate_field_goals(events, p, "2PT")[1]

\* C6: finalize_game is idempotent: run again on an unchanged ledger it leaves
\* the same rows, one per (player, game), with the same counters, and the game
\* completed.
C6_FinalizeIdempotent ==
    /\ [] ((last.op = "finalize_game" /\ last.ok) =>
             /\ finalize_rows(events, player_game_stats) = player_game_stats
             /\ \A i, j \in 1..Len(player_game_stats) :
                   player_game_stats[i].player_id = player_game_stats[j].player_id => i = j
             /\ status = "completed")
    /\ [][ (last.op = "finalize_game" /\ last.ok /\ last'.op = "finalize_game" /\ last'.ok)
           => (player_game_stats' = player_game_stats /\ status' = "completed") ]_vars

\* a finalize has run over rows stored by an earlier finalize: it updated the
\* row of a scoring player and met the row of a player whose events have
\* since been deleted
C6_Witness ==
    /\ last.op = "finalize_game" /\ last.ok
    /\ status = "completed"
    /\ \E row \in Rows(player_game_stats) : row.stats.points >= 2
    /\ \E row \in Rows(player_game_stats) :
          \A i \in 1..Len(events) : events[i].user_id # row.player_id

\* the live totals of the game: per participating team points, fouls and
\* timeouts, per player the statistics of get_player_stats
LiveTotals(evs, ros) ==
    [team \in {HomeTeam, AwayTeam} |->
        LET t == get_team_stats(evs, ros, team)
        IN  [points |-> t.points, fouls |-> t.fouls, timeouts |-> t.timeouts]]

LivePlayer(evs, p) ==
    LET st == get_player_stats(evs, p)
    IN  <<st.points, st.fga, st.fgm, st.three_pa, st.three_pm, st.fta, st.ftm,
          st.ast, st.reb, st.fls>>

\* what one event adds to the live totals
ShotPoints(e) ==
    IF e.outcome # "made" THEN 0
    ELSE IF e.event_type = "2PT" THEN 2
    ELSE IF e.event_type = "3PT" THEN 3
    ELSE IF e.event_type = "FT" THEN 1
    ELSE 0

B(x) == IF x THEN 1 ELSE 0

PlayerContribution(e, p) ==
    IF e.user_id # p THEN <<0, 0, 0, 0, 0, 0, 0, 0, 0, 0>>
    ELSE <<ShotPoints(e),
           B(e.event_type \in {"2PT", "3PT"}),
           B(e.event_type \in {"2PT", "3PT"} /\ e.outcome = "made"),
           B(e.event_type = "3PT"),
           B(e.event_type = "3PT" /\ e.outcome = "made"),
           B(e.event_type = "FT"),
           B(e.event_type = "FT" /\ e.outcome = "made"),
           B(e.event_type = "AST"),
           B(e.event_type = "REB"),
           B(e.event_type = "FLS")>>

TeamContribution(e, ros, team) ==
    LET mine == e.user_id \in RosterPlayers(ros) /\ e.user_id \in Players
                /\ PlayerTeam[e.user_id] = team
    IN  [points |-> IF mine THEN ShotPoints(e) ELSE 0,
         fouls |-> B(mine /\ e.event_type = "FLS"),
         timeouts |-> B(e.team_id = team /\ e.event_type = "TO")]

\* totals "with" = totals "without" + the contribution of e
DiffersBy(with, without, e, ros) ==
    LET tw == LiveTotals(with, ros)
        to == LiveTotals(without, ros)
    IN  /\ \A team \in {HomeTeam, AwayTeam} :
              LET c == TeamContribution(e, ros, team)
              IN  /\ tw[team].points = to[team].points + c.points
                  /\ tw[team].fouls = to[team].fouls + c.fouls
                  /\ tw[team].timeouts = to[team].timeouts + c.timeouts
        /\ \A p \in Players :
              LET pw == LivePlayer(with, p)
                  po == LivePlayer(without, p)
                  c == PlayerContribution(e, p)
              IN  \A k \in 1..10 : pw[k] = po[k] + c[k]

\* C7: deleting an event of the ledger removes that one row from the event
\* list and lowers every live total by exactly the event's contribution;
\* appending an equivalent event afterwards brings every total back.
C7_DeleteRoundTrip ==
    /\ [][ (last'.op = "undo_event" /\ last'.ok) =>
             \E i \in 1..Len(events) :
                /\ events' = SubSeq(events, 1, i - 1) \o SubSeq(events, i + 1, Len(events))
                /\ DiffersBy(events, events', events[i], roster)
                /\ LET again == Append(events', GameEventRow(next_event_id, last'.event))
                   IN  /\ LiveTotals(again, roster) = LiveTotals(events, roster)
                       /\ \A p \in Players : LivePlayer(again, p) = LivePlayer(events, p) ]_vars
    /\ [][ (last'.op \in AppendOps /\ last'.ok) =>
             /\ Len(events') = Len(events) + 1
             /\ DiffersBy(events', events, events'[Len(events')], roster) ]_vars

\* a made two-point shot of a rostered player has just been deleted from a
\* ledger that keeps other events
C7_Witness ==
    /\ last.op = "undo_event" /\ last.ok
    /\ last.event = Event(1, HomeTeam, "2PT", 1, "made")
    /\ 1 \in RosterPlayers(roster)
    /\ Len(events) >= 1

\* made shots of kind ty among the events of a team
MadeFor(evs, team, ty) ==
    Cardinality({i \in 1..Len(evs) :
        evs[i].event_type = ty /\ evs[i].outcome = "made" /\ evs[i].team_id = team})

\* C9: for any ledger, the points of get_team_stats are 2 per made 2PT, 3 per
\* made 3PT and 1 per made FT among the team's events, misses and other
\* events adding 0, and timeouts is the number of the team's TO events.
C9_TeamPoints ==
    \A team \in {HomeTeam, AwayTeam} :
        LET t == get_team_stats(events, roster, team)
        IN  /\ t.points = 2 * MadeFor(events, team, "2PT")
                          + 3 * MadeFor(events, team, "3PT")
                          + MadeFor(events, team, "FT")
            /\ t.timeouts = Cardinality({i \in 1..Len(events) :
                                events[i].event_type = "TO" /\ events[i].team_id = team})

(***************************************************************************)
(* Game state machine                                                      *)
(***************************************************************************)
\* C11: completed and cancelled are absorbing: once the status is completed
\* or cancelled no operation changes it again.
C11_TerminalAbsorbing ==
    [][ (status \in {"completed", "cancelled"}) => (status' = status) ]_vars

\* the edges of the game state machine
StatusEdges ==
    { <<"scheduled", "in_progress">>, <<"in_progress", "completed">>,
      <<"scheduled", "cancelled">>, <<"in_progress", "cancelled">> }

\* C12: every status change of an existing game is one of the edges
\* scheduled->in_progress, in_progress->completed, scheduled->cancelled,
\* in_progress->cancelled.
C12_OnlyStatedEdges ==
    [][ (status # "none" /\ status' # status) => (<<status, status'>> \in StatusEdges) ]_vars

\* C13: the timeout is active only while the game is in progress.
C13_TimeoutOnlyInProgress == timeout_active => status = "in_progress"

(***************************************************************************)
(* Validation gate                                                         *)
(***************************************************************************)
MaxValidateEvents == 6

\* EventValidationService.validate_event applied to the persisted state and a
\* proposed event; a read-only call
apply_validate_event(e) ==
    /\ last' = Response("validate_event",
                        validate_event(status, roster, events, e.user_id, e.team_id,
                                       e.event_type, e.period), e)
    /\ UNCHANGED <<status, roster, events, next_event_id, home_score, away_score,
                   timeout_active, started_at, ended_at, player_game_stats, requests>>
    /\ UNCHANGED <<finalizers, realtime_vars, team_vars, career_vars>>

\* proposed events: actor absent, rostered candidates and an unknown player;
\* both teams of the game, another team and an unknown team; periods around
\* the range; actor-requiring, team-level and unknown types
ValidateInputs ==
    { Event(u, t, ty, per, NoOutcome) :
        u \in {None, 1, 2, 3}, t \in {HomeTeam, AwayTeam, OtherTeam, "Z"},
        ty \in {"2PT", "FLS", "TO", "XYZ"}, per \in {0, 1, 6} }

NextValidate ==
    \/ \E r \in RosterInputs : create_game(r[1], r[2])
    \/ start_game
    \/ end_game
    \/ update_game(TRUE, "in_progress")
    \/ next_event_id <= MaxValidateEvents
         /\ add_game_event(Event(1, HomeTeam, "FLS", 1, NoOutcome))
    \/ \E e \in ValidateInputs : apply_validate_event(e)

SpecValidate == Init /\ [][NextValidate]_vars

\* the checks of the gate in their stated order, with the reason of each
CheckReasons ==
    << "Game not found", "Game is not active", "Period must be between 1 and 5",
       "Team not found", "Team is not in this game", "Event type requires a player",
       "Player not found", "Player is not in game roster",
       "Player does not belong to the event team",
       "Player has been disqualified (6 fouls)", "Invalid event type" >>

\* the checks a proposed event violates in a given state, each judged on its own
ViolatedChecks(st, ros, evs, e) ==
    LET needs_actor == e.event_type \in player_required_events
        known == e.user_id \in Players
    IN  {k \in 1..Len(CheckReasons) :
           \/ k = 1 /\ st = "none"
           \/ k = 2 /\ st # "in_progress"
           \/ k = 3 /\ e.period \notin 1..5
           \/ k = 4 /\ e.team_id \notin Teams
           \/ k = 5 /\ e.team_id \notin {HomeTeam, AwayTeam}
           \/ k = 6 /\ needs_actor /\ e.user_id = None
           \/ k = 7 /\ needs_actor /\ ~known
           \/ k = 8 /\ needs_actor /\ e.user_id \notin RosterPlayers(ros)
           \/ k = 9 /\ needs_actor /\ (~known \/ PlayerTeam[e.user_id] # e.team_id)
           \/ k = 10 /\ e.event_type = "FLS"
                     /\ Cardinality({i \in 1..Len(evs) :
                            evs[i].user_id = e.user_id /\ evs[i].event_type = "FLS"}) >= FoulLimit
           \/ k = 11 /\ e.event_type \notin valid_events}

\* C14: the gate answers with the reason of the earliest check the proposed
\* event violates, and accepts exactly when it violates none.
C14_FirstFailureWins ==
    last.op = "validate_event" =>
        LET bad == ViolatedChecks(status, roster, events, last.event)
        IN  IF bad = {} THEN last.ok
            ELSE /\ ~last.ok
                 /\ last.reason = CheckReasons[CHOOSE k \in bad : \A j \in bad : k <= j]

\* a rejection of a foul by a player of the other team who already has six
\* fouls: the team check and the foul guard are both violated
C14_Witness ==
    /\ last.op = "validate_event"
    /\ last.reason = "Player does not belong to the event team"
    /\ ViolatedChecks(status, roster, events, last.event) = {9, 10}

(***************************************************************************)
(* What the two append routes admit                                        *)
(***************************************************************************)
MaxGateEvents == 2

\* a valid shot, a shot without an actor, a shot by a player of the other
\* team, a shot without an outcome and a shot with an unknown outcome
GateInputs ==
    { Event(1, HomeTeam, "2PT", 1, "made"),
      Event(None, HomeTeam, "2PT", 1, "made"),
      Event(2, HomeTeam, "2PT", 1, "made"),
      Event(1, HomeTeam, "2PT", 1, NoOutcome),
      Event(1, HomeTeam, "2PT", 1, "swish") }

NextGate ==
    \/ \E r \in RosterInputs : create_game(r[1], r[2])
    \/ start_game
    \/ \E e \in GateInputs : next_event_id <= MaxGateEvents /\ record_event(e)
    \/ \E e \in GateInputs : next_event_id <= MaxGateEvents /\ add_game_event(e)
    \/ \E id \in 1..MaxGateEvents : undo_event(id)

SpecGate == Init /\ [][NextGate]_vars

\* the event types that need an acting player
ActorTypes ==
    {"2PT", "3PT", "FT", "AST", "REB", "FLS", "SUB"} \cup (foul_event_types \ {"FLS"})

\* C15: every event of the ledger whose type requires an actor has an acting
\* player with a roster row of the game for the event's team.
C15_ActorsRostered ==
    \A i \in 1..Len(events) :
        events[i].event_type \in ActorTypes =>
            \E r \in roster : r.user_id = events[i].user_id /\ r.team_id = events[i].team_id

\* C16: every shot event of the ledger has outcome made or miss.
C16_ShotOutcomes ==
    \A i \in 1..Len(events) :
        events[i].event_type \in ShotTypes => events[i].outcome \in {"made", "miss"}

(***************************************************************************)
(* GameService.finalize_game step by step                                  *)
(***************************************************************************)
MaxFinalizeEvents == 2

\* routes_games.finalize_game up to the end of the fold of
\* GameService.finalize_game: the checks of the route, the query of the
\* events and the player_stats dictionary
finalize_begin(r, is_admin) ==
    LET res == IF status = "none" THEN Rejected("Game not found")
               ELSE IF ~is_admin THEN Rejected("Not authorized to end this game")
               ELSE Ok
        dict == accumulate_player_stats(events, <<>>, EmptyDict)
    IN  /\ finalizers[r].pc = "idle"
        /\ IF res.ok
           THEN /\ finalizers' = [finalizers EXCEPT ![r] =
                      [pc |-> "loop", keys |-> dict[1], player_stats |-> dict[2],
                       added |-> <<>>, rows_before |-> player_game_stats,
                       status_before |-> status, ended_before |-> ended_at]]
                /\ UNCHANGED last
           ELSE /\ last' = Response("finalize_game", res, NoEvent)
                /\ UNCHANGED finalizers
        /\ UNCHANGED <<status, roster, events, next_event_id, home_score, away_score,
                       timeout_active, started_at, ended_at, player_game_stats, requests>>
        /\ UNCHANGED <<realtime_vars, team_vars, career_vars>>

\* one pass of the loop over player_stats.items(): the existing row is updated
\* and the session committed, or a new row is added to the session
finalize_player(r) ==
    LET f == finalizers[r]
        player_id == Head(f.keys)
        row == StatsRow(player_id, f.player_stats[player_id])
        existing == {i \in 1..Len(player_game_stats) :
                        player_game_stats[i].player_id = player_id}
    IN  /\ f.pc = "loop"
        /\ f.keys # <<>>
        /\ IF existing # {}
           THEN LET first == CHOOSE i \in existing : \A j \in existing : i <= j
                IN  /\ player_game_stats' = [player_game_stats EXCEPT ![first] = row] \o f.added
                    /\ finalizers' = [finalizers EXCEPT ![r].keys = Tail(f.keys),
                                                        ![r].added = <<>>]
           ELSE /\ finalizers' = [finalizers EXCEPT ![r].keys = Tail(f.keys),
                                                    ![r].added = Append(f.added, row)]
                /\ UNCHANGED player_game_stats
        /\ UNCHANGED <<status, roster, events, next_event_id, home_score, away_score,
                       timeout_active, started_at, ended_at, requests, last>>
        /\ UNCHANGED <<realtime_vars, team_vars, career_vars>>

\* game.status = 'completed'; game.ended_at = now; db.commit()
finalize_commit(r) ==
    LET f == finalizers[r]
    IN  /\ f.pc = "loop"
        /\ f.keys = <<>>
        /\ player_game_stats' = player_game_stats \o f.added
        /\ status' = "completed"
        /\ ended_at' = TRUE
        /\ finalizers' = [finalizers EXCEPT ![r] = NoFinalize]
        /\ last' = Response("finalize_game", Ok, NoEvent)
        /\ UNCHANGED <<roster, events, next_event_id, home_score, away_score,
                       timeout_active, started_at, requests>>
        /\ UNCHANGED <<realtime_vars, team_vars, career_vars>>

\* an exception inside the try block: db.rollback() drops what the session has
\* not committed, and the route answers 500
finalize_fail(r) ==
    /\ finalizers[r].pc = "loop"
    /\ finalizers' = [finalizers EXCEPT ![r] = NoFinalize]
    /\ last' = Response("finalize_game", Rejected("500"), NoEvent)
    /\ UNCHANGED <<status, roster, events, next_event_id, home_score, away_score,
                   timeout_active, started_at, ended_at, player_game_stats, requests>>
    /\ UNCHANGED <<realtime_vars, team_vars, career_vars>>

FinalizeInputs ==
    { Event(1, HomeTeam, "2PT", 1, "made"),
      Event(2, AwayTeam, "FT", 1, "made") }

\* one caller at a time, whose call may fail
NextFinalizeFail ==
    \/ \E ro \in RosterInputs : create_game(ro[1], ro[2])
    \/ \E e \in FinalizeInputs : next_event_id <= MaxFinalizeEvents /\ add_game_event(e)
    \/ \E a \in BOOLEAN : finalize_begin(1, a)
    \/ finalize_player(1)
    \/ finalize_commit(1)
    \/ finalize_fail(1)

SpecFinalizeFail == Init /\ [][NextFinalizeFail]_vars

\* two callers whose steps interleave
NextFinalizeRace ==
    \/ \E ro \in RosterInputs : create_game(ro[1], ro[2])
    \/ \E e \in FinalizeInputs : next_event_id <= MaxFinalizeEvents /\ add_game_event(e)
    \/ \E r \in Reqs : finalize_begin(r, TRUE)
    \/ \E r \in Reqs : finalize_player(r)
    \/ \E r \in Reqs : finalize_commit(r)

SpecFinalizeRace == Init /\ [][NextFinalizeRace]_vars

\* C17: a finalize_game call that fails leaves the PlayerGameStats rows, the
\* status and the end time as they were when it was called.
C17_FinalizeAtomic ==
    [][ \A r \in Reqs :
          (finalizers[r].pc = "loop" /\ finalizers'[r].pc = "idle"
           /\ last'.op = "finalize_game" /\ ~last'.ok)
          => /\ player_game_stats' = finalizers[r].rows_before
             /\ status' = finalizers[r].status_before
             /\ ended_at' = finalizers[r].ended_before ]_vars

\* C18: there is at most one PlayerGameStats row per player of the game.
C18_OneRowPerPlayer ==
    \A i, j \in 1..Len(player_game_stats) :
        player_game_stats[i].player_id = player_game_stats[j].player_id => i = j

\* C19: after a finalize_game the stored scores equal the points the ledger
\* gives the home team and the away team.
C19_ScoresMatchLedger ==
    (last.op = "finalize_game" /\ last.ok) =>
        /\ home_score = get_team_stats(events, roster, HomeTeam).points
        /\ away_score = get_team_stats(events, roster, AwayTeam).points

(***************************************************************************)
(* Realtime registry (services_realtime.py) and Socket.IO rooms            *)
(* (app/websocket.py)                                                      *)
(***************************************************************************)
database_vars == <<status, roster, events, next_event_id, home_score, away_score,
                   timeout_active, started_at, ended_at, player_game_stats, requests,
                   last, finalizers, team_vars, career_vars>>

ConnectionIds == {"c1", "c2"}
SessionIds == {"s1", "s2"}
\* game 1 is the game of this model, game 2 another row of the games table,
\* game 3 the id of no game; 0 stands for a missing game_id
RoomGames == {1, 2}
JoinGameIds == {0, 1, 2, 3}
GameExists(game_id) == (game_id = 1 /\ status # "none") \/ game_id = 2

\* a dictionary without the key k
Without(dict, k) == [x \in DOMAIN dict \ {k} |-> dict[x]]

\* ConnectionManager.create_room
create_room(game_id) ==
    IF game_id \notin DOMAIN rooms THEN (game_id :> {}) @@ rooms ELSE rooms

\* GameRoom.__init__ for the room create_room makes: an empty events_history
create_room_history(dict, game_id, empty) ==
    IF game_id \notin DOMAIN rooms THEN (game_id :> empty) @@ dict ELSE dict

\* ConnectionManager.add_connection
add_connection(connection_id, game_id, user_id) ==
    /\ rooms' = [create_room(game_id) EXCEPT ![game_id] = @ \cup {connection_id}]
    /\ connection_map' = (connection_id :> game_id) @@ connection_map
    /\ active_connections' =
          (connection_id :> [user_id |-> user_id, game_id |-> game_id]) @@ active_connections
    /\ events_history' = create_room_history(events_history, game_id, <<>>)
    /\ broadcast_count' = create_room_history(broadcast_count, game_id, 0)
    /\ UNCHANGED <<game_rooms, sio_sessions, dispatch_vars>>
    /\ UNCHANGED database_vars

\* ConnectionManager.remove_connection
remove_connection(connection_id) ==
    /\ IF connection_id \in DOMAIN connection_map
       THEN LET game_id == connection_map[connection_id]
            IN  /\ rooms' = IF game_id \in DOMAIN rooms
                            THEN [rooms EXCEPT ![game_id] = @ \ {connection_id}]
                            ELSE rooms
                /\ connection_map' = Without(connection_map, connection_id)
                /\ active_connections' = Without(active_connections, connection_id)
       ELSE UNCHANGED <<rooms, connection_map, active_connections>>
    /\ UNCHANGED <<game_rooms, sio_sessions, history_vars, dispatch_vars>>
    /\ UNCHANGED database_vars

\* websocket.connect
connect(sid) ==
    /\ sid \notin sio_sessions
    /\ sio_sessions' = sio_sessions \cup {sid}
    /\ UNCHANGED <<rooms, connection_map, active_connections, game_rooms>>
    /\ UNCHANGED <<history_vars, dispatch_vars>>
    /\ UNCHANGED database_vars

\* websocket.join_game
join_game(sid, game_id) ==
    /\ sid \in sio_sessions
    /\ IF game_id = 0 \/ ~GameExists(game_id)
       THEN UNCHANGED game_rooms
       ELSE game_rooms' =
               LET gr == IF game_id \notin DOMAIN game_rooms
                         THEN (game_id :> {}) @@ game_rooms ELSE game_rooms
               IN  [gr EXCEPT ![game_id] = @ \cup {sid}]
    /\ UNCHANGED <<rooms, connection_map, active_connections, sio_sessions>>
    /\ UNCHANGED <<history_vars, dispatch_vars>>
    /\ UNCHANGED database_vars

\* websocket.leave_game
leave_game(sid, game_id) ==
    /\ sid \in sio_sessions
    /\ IF game_id # 0 /\ game_id \in DOMAIN game_rooms
       THEN game_rooms' = [game_rooms EXCEPT ![game_id] = @ \ {sid}]
       ELSE UNCHANGED game_rooms
    /\ UNCHANGED <<rooms, connection_map, active_connections, sio_sessions>>
    /\ UNCHANGED <<history_vars, dispatch_vars>>
    /\ UNCHANGED database_vars

\* websocket.disconnect
disconnect(sid) ==
    /\ sid \in sio_sessions
    /\ sio_sessions' = sio_sessions \ {sid}
    /\ game_rooms' = [game_id \in DOMAIN game_rooms |-> game_rooms[game_id] \ {sid}]
    /\ UNCHANGED <<rooms, connection_map, active_connections>>
    /\ UNCHANGED <<history_vars, dispatch_vars>>
    /\ UNCHANGED database_vars

NextRealtime ==
    \/ \E ro \in RosterInputs : create_game(ro[1], ro[2])
    \/ \E c \in ConnectionIds, g \in RoomGames, u \in Players : add_connection(c, g, u)
    \/ \E c \in ConnectionIds : remove_connection(c)
    \/ \E sid \in SessionIds : connect(sid)
    \/ \E sid \in SessionIds, g \in JoinGameIds : join_game(sid, g)
    \/ \E sid \in SessionIds, g \in JoinGameIds : leave_game(sid, g)
    \/ \E sid \in SessionIds : disconnect(sid)

SpecRealtime == Init /\ [][NextRealtime]_vars

MaxBroadcasts == 102
HistoryLimit == 100
BroadcastGames == {1, 2, 3}

\* the RealtimeEvent handed to a room; seq is the position of the event among
\* the events handed to that room and stands for its timestamp
RealtimeEvent(event_type, game_id, seq) ==
    [event_type |-> event_type, game_id |-> game_id, seq |-> seq]

\* the last n entries of a list: list[-n:]
LastN(list, n) ==
    IF Len(list) <= n THEN list ELSE SubSeq(list, Len(list) - n + 1, Len(list))

add_event_unbounded(history, event) == Append(history, event)

\* GameRoom.add_event
add_event(history, event) ==
    LET appended == Append(history, event)
    IN  IF Len(appended) > HistoryLimit THEN LastN(appended, HistoryLimit) ELSE appended

\* ConnectionManager.broadcast_to_match
broadcast_to_match(game_id, event_type) ==
    /\ IF game_id \notin DOMAIN rooms
       THEN UNCHANGED history_vars
       ELSE LET event == RealtimeEvent(event_type, game_id, broadcast_count[game_id] + 1)
            IN  /\ events_history' =
                      [events_history EXCEPT ![game_id] = add_event(@, event)]
                /\ broadcast_count' = [broadcast_count EXCEPT ![game_id] = @ + 1]
    /\ UNCHANGED <<rooms, connection_map, active_connections, game_rooms, sio_sessions,
                   dispatch_vars>>
    /\ UNCHANGED database_vars

TotalBroadcasts ==
    LET count(g) == IF g \in DOMAIN broadcast_count THEN broadcast_count[g] ELSE 0
    IN  count(1) + count(2)

NextBroadcast ==
    \/ \E g \in RoomGames : add_connection("c1", g, 1)
    \/ remove_connection("c1")
    \/ \E g \in BroadcastGames :
          TotalBroadcasts < MaxBroadcasts /\ broadcast_to_match(g, "score_update")

SpecBroadcast == Init /\ [][NextBroadcast]_vars

\* C21: a room's history never holds more than 100 events, and after n events
\* were handed to the room it holds the most recent min(n, 100) of them in the
\* order they were handed over.
C21_HistoryIsLastHundred ==
    \A g \in DOMAIN rooms :
        LET h == events_history[g]
            n == broadcast_count[g]
        IN  /\ Len(h) <= 100
            /\ Len(h) = IF n < 100 THEN n ELSE 100
            /\ \A i \in 1..Len(h) : h[i].seq = n - Len(h) + i /\ h[i].game_id = g

C21_Witness ==
    \E g \in DOMAIN rooms : broadcast_count[g] > 100 /\ Len(events_history[g]) = 100

(***************************************************************************)
(* Route handlers that schedule broadcasts (routes.py, the handlers        *)
(* declared "async def") and the broadcast coroutines (websocket.py)       *)
(***************************************************************************)
MaxDispatchEvents == 1

\* a coroutine handed to asyncio.create_task
Task(name, event_id, new_status) ==
    [name |-> name, event_id |-> event_id, status |-> new_status]

\* the message a broadcast coroutine hands to sio.emit for the game's room
Message(event, event_id, new_status, home_points, away_points) ==
    [event |-> event, event_id |-> event_id, status |-> new_status,
     home_points |-> home_points, away_points |-> away_points]

\* "except: pass" replaced by an error response
after_dispatch_raising(res, raised) ==
    IF raised THEN Rejected("Internal Server Error") ELSE res

\* try: create_task(...) except: pass -- the handler's outcome after the block
after_dispatch(res, raised) == res

\* routes.start_game, async
start_game_broadcast ==
    LET res == IF status = "none" THEN Rejected("Game not found")
               ELSE IF status = "in_progress" THEN Rejected("Game is already active")
               ELSE IF ~can_transition(status, "in_progress")
                    THEN Rejected("Cannot transition to active")
               ELSE IF Cardinality(RosterPlayers(roster)) = 0
                    THEN Rejected("Game has no players in roster")
               ELSE Ok
        new_tasks == <<Task("broadcast_game_status_update", 0, "in_progress")>>
    IN  /\ IF res.ok
           THEN /\ status' = "in_progress" /\ started_at' = TRUE
                /\ \E k \in 0..Len(new_tasks) :
                      /\ tasks' = tasks \o SubSeq(new_tasks, 1, k)
                      /\ last' = Response("start_game",
                                          after_dispatch(res, k < Len(new_tasks)), NoEvent)
           ELSE /\ UNCHANGED <<status, started_at, tasks>>
                /\ last' = Response("start_game", res, NoEvent)
        /\ UNCHANGED <<roster, home_score, away_score, timeout_active, ended_at,
                       events, next_event_id, player_game_stats, requests>>
        /\ UNCHANGED <<finalizers, team_vars, career_vars, rooms, connection_map, active_connections, game_rooms,
                       sio_sessions, history_vars, emitted>>

\* routes.end_game, async
end_game_broadcast ==
    LET res == IF status = "none" THEN Rejected("Game not found")
               ELSE IF status = "completed" THEN Rejected("Game is already completed")
               ELSE IF ~can_transition(status, "completed")
                    THEN Rejected("Cannot transition to completed")
               ELSE Ok
        new_tasks == <<Task("broadcast_game_status_update", 0, "completed")>>
    IN  /\ IF res.ok
           THEN /\ status' = "completed" /\ ended_at' = TRUE
                /\ \E k \in 0..Len(new_tasks) :
                      /\ tasks' = tasks \o SubSeq(new_tasks, 1, k)
                      /\ last' = Response("end_game",
                                          after_dispatch(res, k < Len(new_tasks)), NoEvent)
           ELSE /\ UNCHANGED <<status, ended_at, tasks>>
                /\ last' = Response("end_game", res, NoEvent)
        /\ UNCHANGED <<roster, home_score, away_score, timeout_active, started_at,
                       events, next_event_id, player_game_stats, requests>>
        /\ UNCHANGED <<finalizers, team_vars, career_vars, rooms, connection_map, active_connections, game_rooms,
                       sio_sessions, history_vars, emitted>>

\* routes.record_event, async
record_event_broadcast(e) ==
    LET res == record_event_checks(e)
        new_tasks == <<Task("broadcast_event_created", next_event_id, ""),
                       Task("broadcast_scoreboard_update", 0, "")>>
    IN  /\ IF res.ok
           THEN /\ append_event(e)
                /\ \E k \in 0..Len(new_tasks) :
                      /\ tasks' = tasks \o SubSeq(new_tasks, 1, k)
                      /\ last' = Response("record_event",
                                          after_dispatch(res, k < Len(new_tasks)), e)
           ELSE /\ UNCHANGED <<events, next_event_id, tasks>>
                /\ last' = Response("record_event", res, e)
        /\ UNCHANGED <<status, roster, home_score, away_score, timeout_active,
                       started_at, ended_at, player_game_stats, requests>>
        /\ UNCHANGED <<finalizers, team_vars, career_vars, rooms, connection_map, active_connections, game_rooms,
                       sio_sessions, history_vars, emitted>>

\* routes.undo_event, async
undo_event_broadcast(event_id) ==
    LET res == IF event_id \notin EventIds(events) THEN Rejected("Event not found") ELSE Ok
        new_tasks == <<Task("broadcast_event_deleted", event_id, ""),
                       Task("broadcast_scoreboard_update", 0, "")>>
    IN  /\ IF res.ok
           THEN /\ events' = delete_event(events, event_id)
                /\ \E k \in 0..Len(new_tasks) :
                      /\ tasks' = tasks \o SubSeq(new_tasks, 1, k)
                      /\ last' = Response("undo_event",
                                          after_dispatch(res, k < Len(new_tasks)), NoEvent)
           ELSE /\ UNCHANGED <<events, tasks>>
                /\ last' = Response("undo_event", res, NoEvent)
        /\ UNCHANGED <<status, roster, home_score, away_score, timeout_active, started_at,
                       ended_at, player_game_stats, requests, next_event_id>>
        /\ UNCHANGED <<finalizers, team_vars, career_vars, rooms, connection_map, active_connections, game_rooms,
                       sio_sessions, history_vars, emitted>>

\* what the coroutine of a task hands to sio.emit: a list of no or one message
broadcast(task) ==
    IF task.name = "broadcast_event_created"
    THEN IF task.event_id \in EventIds(events)
         THEN <<Message("event_created", task.event_id, "", 0, 0)>>
         ELSE <<>>
    ELSE IF task.name = "broadcast_event_deleted"
    THEN <<Message("event_deleted", task.event_id, "", 0, 0)>>
    ELSE IF task.name = "broadcast_scoreboard_update"
    THEN IF status = "none" THEN <<>>
         ELSE <<Message("scoreboard_update", 0, status,
                        get_team_stats(events, roster, HomeTeam).points,
                        get_team_stats(events, roster, AwayTeam).points)>>
    ELSE IF status = "none" THEN <<>>
         ELSE <<Message("game_status_update", 0, task.status, 0, 0)>>

\* the event loop runs the oldest task to its end
run_task ==
    /\ tasks # <<>>
    /\ emitted' = emitted \o broadcast(Head(tasks))
    /\ tasks' = Tail(tasks)
    /\ UNCHANGED <<rooms, connection_map, active_connections, game_rooms, sio_sessions,
                   history_vars>>
    /\ UNCHANGED database_vars

\* the oldest task ends with an exception before sio.emit delivered
fail_task ==
    /\ tasks # <<>>
    /\ tasks' = Tail(tasks)
    /\ UNCHANGED <<rooms, connection_map, active_connections, game_rooms, sio_sessions,
                   history_vars, emitted>>
    /\ UNCHANGED database_vars

DispatchInputs ==
    {Event(1, HomeTeam, "2PT", 1, "made"), Event(None, HomeTeam, "TO", 1, NoOutcome)}

NextDispatch ==
    \/ create_game({1}, {2})
    \/ start_game_broadcast
    \/ end_game_broadcast
    \/ \E e \in DispatchInputs :
          next_event_id <= MaxDispatchEvents /\ record_event_broadcast(e)
    \/ next_event_id <= MaxDispatchEvents
          /\ add_game_event(Event(None, HomeTeam, "TO", 1, NoOutcome))
    \/ \E id \in 1..MaxDispatchEvents : undo_event_broadcast(id)
    \/ run_task
    \/ fail_task

SpecDispatch == Init /\ [][NextDispatch]_vars

\* the event loop runs every task it was handed
SpecDispatchFair == SpecDispatch /\ WF_vars(run_task \/ fail_task)

Sent(event, event_id, new_status) ==
    \E i \in 1..Len(emitted) :
        /\ emitted[i].event = event
        /\ emitted[i].event_id = event_id
        /\ emitted[i].status = new_status

\* C22: every event that is committed to the ledger is eventually announced to
\* the game's room with an event_created message, every deleted event with an
\* event_deleted message, and every status the game takes with a
\* game_status_update message.
C22_MutationDispatched ==
    /\ \A id \in 1..MaxDispatchEvents :
          [](id \in EventIds(events) => <>Sent("event_created", id, ""))
    /\ \A id \in 1..MaxDispatchEvents :
          []((id < next_event_id /\ id \notin EventIds(events))
                => <>Sent("event_deleted", id, ""))
    /\ \A s \in {"in_progress", "completed"} :
          [](status = s => <>Sent("game_status_update", 0, s))

\* a step of the event loop: a task left the queue
TaskStep == Len(tasks') < Len(tasks)

\* C23: the broadcast is decoupled from the write.  A task exists only for a
\* change that is already committed; a step of a broadcast task, whether it
\* emits or fails, changes no row and no response; a record_event or
\* undo_event that answers success has appended or deleted its row, whatever
\* became of the scheduling; and a step that changed the ledger never answers
\* with an error.
C23_DispatchDecoupled ==
    [][ /\ \A i \in 1..Len(tasks') :
              /\ tasks'[i].name = "broadcast_event_created"
                    => tasks'[i].event_id < next_event_id'
              /\ tasks'[i].name = "broadcast_event_deleted"
                    => tasks'[i].event_id \notin EventIds(events')
        /\ TaskStep => UNCHANGED database_vars
        /\ (~TaskStep /\ last'.op = "record_event" /\ last'.ok)
              => events' = Append(events, GameEventRow(next_event_id, last'.event))
        /\ (~TaskStep /\ last'.op = "undo_event" /\ last'.ok)
              => Len(events') = Len(events) - 1
        /\ (events' # events) => last'.ok ]_vars

\* a record_event answered success, its row is in the ledger, and nothing was
\* emitted and nothing is left to run: its dispatch failed
C23_Witness ==
    /\ last.op = "record_event" /\ last.ok
    /\ Len(events) = 1 /\ events[1].event_type = "2PT"
    /\ tasks = <<>> /\ emitted = <<>>

(***************************************************************************)
(* Team membership and leadership flags (routes_games.py)                  *)
(***************************************************************************)
Users == {1, 2, 3}
Roles == {"member", "admin", "captain", "vice_captain"}
\* Optional[bool]: the empty set is None
OptionalBool == {{}, {TRUE}, {FALSE}}
Value(opt) == CHOOSE b \in opt : TRUE

MemberOf(user_id) == {m \in team_members : m.user_id = user_id}
IsTeamAdmin(user_id) ==
    \E m \in team_members : m.user_id = user_id /\ m.is_admin /\ m.status = "active"

team_frame ==
    /\ UNCHANGED <<status, roster, events, next_event_id, home_score, away_score,
                   timeout_active, started_at, ended_at, player_game_stats, requests>>
    /\ UNCHANGED <<finalizers, realtime_vars, career_vars>>

\* routes_games.add_team_member_direct
add_team_member_direct(current_user, user_id, role) ==
    LET res == IF ~IsTeamAdmin(current_user) THEN Rejected("Not authorized to add members")
               ELSE IF user_id = None THEN Rejected("user_id is required")
               ELSE IF user_id \notin Users THEN Rejected("User not found")
               ELSE IF MemberOf(user_id) # {} THEN Rejected("User is already a team member")
               ELSE Ok
    IN  /\ last' = Response("add_team_member_direct", res, NoEvent)
        /\ team_members' =
              IF res.ok
              THEN team_members \cup
                     {[user_id |-> user_id,
                       role |-> IF role \in {"admin", "captain", "vice_captain"}
                                THEN role ELSE "member",
                       is_admin |-> role = "admin",
                       is_captain |-> role = "captain",
                       is_vice_captain |-> role = "vice_captain",
                       status |-> "active"]}
              ELSE team_members
        /\ team_frame

\* the rows after "existing.flag = False" and "member.flag = value", where
\* existing is the row the query for an active holder of the flag returned
set_captain(rows, member_id, existing_id, value) ==
    {[m EXCEPT !.is_captain = IF m.user_id = member_id THEN value
                              ELSE IF m.user_id = existing_id THEN FALSE
                              ELSE @] : m \in rows}

set_vice_captain(rows, member_id, existing_id, value) ==
    {[m EXCEPT !.is_vice_captain = IF m.user_id = member_id THEN value
                                   ELSE IF m.user_id = existing_id THEN FALSE
                                   ELSE @] : m \in rows}

\* the rows .first() may return for the active holders of a flag; None when
\* there is no holder
Holders(rows, flag) ==
    LET held == {m.user_id : m \in {x \in rows : x[flag] /\ x.status = "active"}}
    IN  IF held = {} THEN {None} ELSE held

\* routes_games.update_team_member_role
update_team_member_role(current_user, member_id, is_admin, is_captain, is_vice_captain) ==
    LET res == IF ~IsTeamAdmin(current_user)
               THEN Rejected("Not authorized to manage member roles")
               ELSE IF MemberOf(member_id) = {} THEN Rejected("Team member not found")
               ELSE Ok
    IN  /\ last' = Response("update_team_member_role", res, NoEvent)
        /\ IF ~res.ok
           THEN UNCHANGED team_members
           ELSE LET member == CHOOSE m \in MemberOf(member_id) : TRUE
                IN  \E c \in Holders(team_members, "is_captain") :
                      LET rows1 == IF is_captain # {} /\ Value(is_captain) # member.is_captain
                                   THEN set_captain(team_members, member_id,
                                                    IF Value(is_captain) THEN c ELSE None,
                                                    Value(is_captain))
                                   ELSE team_members
                          member1 == CHOOSE m \in rows1 : m.user_id = member_id
                      IN  \E v \in Holders(rows1, "is_vice_captain") :
                            LET rows2 ==
                                  IF is_vice_captain # {}
                                     /\ Value(is_vice_captain) # member1.is_vice_captain
                                  THEN set_vice_captain(rows1, member_id,
                                          IF Value(is_vice_captain) THEN v ELSE None,
                                          Value(is_vice_captain))
                                  ELSE rows1
                            IN  team_members' =
                                  IF is_admin = {} THEN rows2
                                  ELSE {[m EXCEPT !.is_admin =
                                            IF m.user_id = member_id THEN Value(is_admin)
                                            ELSE @] : m \in rows2}
        /\ team_frame

\* routes_games.remove_team_member
remove_team_member(current_user, member_id) ==
    LET res == IF ~\E m \in team_members :
                     m.user_id = current_user /\ m.role = "admin" /\ m.status = "active"
               THEN Rejected("Not authorized to remove members")
               ELSE IF MemberOf(member_id) = {} THEN Rejected("Team member not found")
               ELSE IF member_id = TeamOwnerId THEN Rejected("Cannot remove team owner")
               ELSE Ok
    IN  /\ last' = Response("remove_team_member", res, NoEvent)
        /\ team_members' = IF res.ok THEN team_members \ MemberOf(member_id)
                           ELSE team_members
        /\ team_frame

TeamCallers == {1, 2}

NextTeam ==
    \/ \E u \in TeamCallers, m \in {None, 2, 3, 4}, r \in Roles :
          add_team_member_direct(u, m, r)
    \/ \E u \in TeamCallers, m \in {2, 3}, a \in {{}, {TRUE}}, c, v \in OptionalBool :
          update_team_member_role(u, m, a, c, v)
    \/ \E u \in TeamCallers, m \in Users : remove_team_member(u, m)

SpecTeam == Init /\ [][NextTeam]_vars

ActiveWith(flag) == {m \in team_members : m[flag] /\ m.status = "active"}

\* C24: the team has at most one active member with the captain flag and at
\* most one active member with the vice-captain flag, whatever members were
\* added, updated and removed.
C24_OneCaptainOneVice ==
    /\ Cardinality(ActiveWith("is_captain")) <= 1
    /\ Cardinality(ActiveWith("is_vice_captain")) <= 1

(***************************************************************************)
(* Shooting percentage (services.py) and career view (services_games.py)   *)
(***************************************************************************)
MaxShots == 3
MaxCareerGames == 2
CareerPlayer == 1
CareerPlayers == {CareerPlayer, 9}

\* round(num / den, n) with num already scaled by 10^n: the nearest integer,
\* a tie going to the even one
round_half_even(num, den) ==
    LET q == num \div den
        r == num % den
    IN  IF 2 * r < den THEN q
        ELSE IF 2 * r > den THEN q + 1
        ELSE IF q % 2 = 0 THEN q ELSE q + 1

\* the division without the test for zero attempts
calculate_percentage_unguarded(made, attempts) ==
    IF attempts = 0 THEN [ok |-> FALSE, value |-> 0]
    ELSE [ok |-> TRUE, value |-> round_half_even(made * 1000, attempts)]

\* StatsCalculationService.calculate_percentage, in tenths of a percent;
\* ok is FALSE when the call raises
calculate_percentage(made, attempts) ==
    IF attempts = 0 THEN [ok |-> TRUE, value |-> 0]
    ELSE [ok |-> TRUE, value |-> round_half_even(made * 1000, attempts)]

RECURSIVE SumOf(_, _)
SumOf(rows, field) ==
    IF rows = <<>> THEN 0 ELSE Head(rows)[field] + SumOf(Tail(rows), field)

\* GameService.get_player_stats; the average and the percentage in hundredths
get_player_stats_career(rows) ==
    IF rows = <<>>
    THEN NoCareerView
    ELSE LET total_points == SumOf(rows, "points")
             total_shots_made == SumOf(rows, "shots_made")
             total_shots_attempted == SumOf(rows, "shots_attempted")
             total_games == Len(rows)
         IN  [total_games |-> total_games,
              total_points |-> total_points,
              average_points_per_game |->
                  IF total_games > 0 THEN round_half_even(total_points * 100, total_games)
                  ELSE 0,
              total_shots_made |-> total_shots_made,
              total_shots_attempted |-> total_shots_attempted,
              career_shooting_percentage |->
                  IF total_shots_attempted > 0
                  THEN round_half_even(total_shots_made * 10000, total_shots_attempted)
                  ELSE 0,
              ok |-> TRUE]

career_frame ==
    /\ UNCHANGED <<status, roster, events, next_event_id, home_score, away_score,
                   timeout_active, started_at, ended_at, player_game_stats, requests>>
    /\ UNCHANGED <<finalizers, realtime_vars, team_vars>>

\* a call of calculate_percentage
apply_calculate_percentage(made, attempts) ==
    LET res == calculate_percentage(made, attempts)
    IN  /\ percentage' = [made |-> made, attempts |-> attempts, result |-> res.value]
        /\ last' = Response("calculate_percentage",
                            IF res.ok THEN Ok ELSE Rejected("ZeroDivisionError"), NoEvent)
        /\ UNCHANGED <<career_rows, career_view>>
        /\ career_frame

\* the finalize_game of one more game leaves a PlayerGameStats row of the player
add_career_row(row) ==
    /\ career_rows' = Append(career_rows, row)
    /\ last' = Response("finalize_game", Ok, NoEvent)
    /\ UNCHANGED <<career_view, percentage>>
    /\ career_frame

\* routes_games.get_player_stats -> GameService.get_player_stats
get_player_stats_view(player_id) ==
    LET found == player_id = CareerPlayer
    IN  /\ career_view' = IF found THEN get_player_stats_career(career_rows)
                          ELSE [NoCareerView EXCEPT !.ok = FALSE]
        /\ last' = Response("get_player_stats",
                            IF found THEN Ok ELSE Rejected("Player not found"), NoEvent)
        /\ UNCHANGED <<career_rows, percentage>>
        /\ career_frame

\* rows as finalize_game writes them: shots_made <= shots_attempted
CareerRowInputs ==
    {[points |-> 0, shots_made |-> 0, shots_attempted |-> 0],
     [points |-> 1, shots_made |-> 0, shots_attempted |-> 0],
     [points |-> 0, shots_made |-> 0, shots_attempted |-> 1],
     [points |-> 2, shots_made |-> 1, shots_attempted |-> 1],
     [points |-> 5, shots_made |-> 2, shots_attempted |-> 3]}

NextCareer ==
    \/ \E made \in 0..MaxShots, attempts \in 0..MaxShots :
          apply_calculate_percentage(made, attempts)
    \/ \E row \in CareerRowInputs : Len(career_rows) < MaxCareerGames /\ add_career_row(row)
    \/ \E p \in CareerPlayers : get_player_stats_view(p)

SpecCareer == Init /\ [][NextCareer]_vars

\* C25: calculate_percentage answers 0.0 without an error whenever attempts
\* is 0, and the career view of an existing player answers shooting
\* percentage 0.0 without an error when the player has no rows or rows whose
\* attempts sum to 0, and average points 0.0 when the player has no rows.
C25_ZeroAttempts ==
    /\ (last.op = "calculate_percentage" /\ percentage.attempts = 0)
          => (last.ok /\ percentage.result = 0)
    /\ (last.op = "get_player_stats" /\ last.ok)
          => /\ career_view.ok
             /\ SumOf(career_rows, "shots_attempted") = 0
                   => career_view.career_shooting_percentage = 0
             /\ career_rows = <<>> => career_view.average_points_per_game = 0

\* the view of a player with a game whose attempts are 0, after a
\* calculate_percentage of a made shot over no attempts
C25_Witness ==
    /\ last.op = "get_player_stats" /\ last.ok
    /\ Len(career_rows) > 0
    /\ SumOf(career_rows, "shots_attempted") = 0
    /\ percentage.attempts = 0 /\ percentage.made > 0

(***************************************************************************)
(* HTTP status of the ledger requests                                      *)
(***************************************************************************)
\* the status code of the answer: record_event raises 400 for every reason
\* validate_event or validate_shot_outcome returns, undo_event raises 404,
\* add_game_event raises 404, the request schema answers 422
http_status(response) ==
    IF response.ok THEN 200
    ELSE IF response.reason = "422" THEN 422
    ELSE IF response.op = "record_event" THEN 400
    ELSE IF response.op = "undo_event" THEN 404
    ELSE IF response.op = "add_game_event" THEN 404
    ELSE 400

NotFoundReasons == {"Game not found", "Event not found", "Player not found"}

\* C26: a request to record or delete an event that names an unknown game,
\* event or player is answered with the not-found status, not with the status
\* of a validation failure.
C26_NotFoundDistinct ==
    (last.op \in {"record_event", "add_game_event", "undo_event"}
     /\ ~last.ok /\ last.reason \in NotFoundReasons)
        => http_status(last) = 404

(***************************************************************************)
(* The classification of finalize_game against the event-type families     *)
(***************************************************************************)
MaxClassifyEvents == 2

\* the FOUL_ and VIOLATION_ types the requests of the model carry; the
\* request schema of add_game_event takes any string of up to 30 characters
FoulPrefixed == {"FOUL_BLOCKING", "FOUL_CHARGING", "FOUL_HOLDING", "FOUL_PUSHING",
                 "FOUL_HAND_CHECKING", "FOUL_ILLEGAL_SCREEN", "FOUL_ELBOWING",
                 "FOUL_SHOOTING", "FOUL_TECHNICAL"}
ViolationPrefixed == {"VIOLATION_TRAVELING", "VIOLATION_DOUBLE_DRIBBLE",
                      "VIOLATION_BACKCOURT"}

\* event_type.startswith(prefix) on the types of the model
startswith(event_type, prefix) ==
    IF prefix = "FOUL_" THEN event_type \in FoulPrefixed
    ELSE IF prefix = "VIOLATION_" THEN event_type \in ViolationPrefixed
    ELSE FALSE

ClassifyInputs ==
    { Event(1, HomeTeam, "2PT", 1, "made"), Event(1, HomeTeam, "3PT", 1, "miss"),
      Event(2, AwayTeam, "FT", 1, "made"), Event(1, HomeTeam, "AST", 1, NoOutcome),
      Event(2, AwayTeam, "REB", 1, NoOutcome), Event(1, HomeTeam, "FLS", 1, NoOutcome),
      Event(1, HomeTeam, "FOUL_SHOOTING", 1, NoOutcome),
      Event(2, AwayTeam, "FOUL_TECHNICAL", 1, NoOutcome),
      Event(1, HomeTeam, "VIOLATION_TRAVELING", 1, NoOutcome),
      Event(2, AwayTeam, "VIOLATION_BACKCOURT", 1, NoOutcome),
      Event(None, HomeTeam, "TO", 1, NoOutcome) }

NextClassify ==
    \/ \E ro \in RosterInputs : create_game(ro[1], ro[2])
    \/ \E e \in ClassifyInputs : next_event_id <= MaxClassifyEvents /\ add_game_event(e)
    \/ \E a \in BOOLEAN : finalize_game(a)

SpecClassify == Init /\ [][NextClassify]_vars

\* the number of events of player p in the ledger that satisfy Test
CountFor(evs, p, Test(_)) ==
    Cardinality({i \in 1..Len(evs) : evs[i].user_id = p /\ Test(evs[i])})

\* the row the classification table gives player p for the ledger evs
TableStats(evs, p) ==
    LET n(Test(_)) == CountFor(evs, p, Test)
        made2 == n(LAMBDA e : e.event_type = "2PT" /\ e.outcome = "made")
        made3 == n(LAMBDA e : e.event_type = "3PT" /\ e.outcome = "made")
        made1 == n(LAMBDA e : e.event_type = "FT" /\ e.outcome = "made")
        att2 == n(LAMBDA e : e.event_type = "2PT")
        att3 == n(LAMBDA e : e.event_type = "3PT")
    IN  [points |-> 2 * made2 + 3 * made3 + made1,
         assists |-> n(LAMBDA e : e.event_type = "AST"),
         rebounds |-> n(LAMBDA e : e.event_type = "REB"),
         fouls |-> n(LAMBDA e : e.event_type = "FLS" \/ startswith(e.event_type, "FOUL_")),
         violations |-> n(LAMBDA e : startswith(e.event_type, "VIOLATION_")),
         shots_made |-> made2 + made3,
         shots_attempted |-> att2 + att3,
         two_pointers_made |-> made2,
         two_pointers_attempted |-> att2,
         three_pointers_made |-> made3,
         three_pointers_attempted |-> att3,
         free_throws_made |-> made1,
         free_throws_attempted |-> n(LAMBDA e : e.event_type = "FT")]

\* C27: after finalize_game the row of every player who acted holds the
\* counters the classification table gives for the player's events, every FLS
\* or FOUL_ event counted as a foul and every VIOLATION_ event as a violation,
\* and events without an acting user make no row.
C27_FinalizeClassification ==
    (last.op = "finalize_game" /\ last.ok) =>
        /\ \A row \in Rows(player_game_stats) :
              row.player_id # None /\ row.stats = TableStats(events, row.player_id)
        /\ \A p \in Players :
              CountFor(events, p, LAMBDA e : TRUE) > 0
                 => \E row \in Rows(player_game_stats) : row.player_id = p

\* the fields of a finalized row that the live aggregator also computes
LiveFields(stats) ==
    [points |-> stats.points,
     fgm |-> stats.shots_made, fga |-> stats.shots_attempted,
     three_pm |-> stats.three_pointers_made, three_pa |-> stats.three_pointers_attempted,
     ftm |-> stats.free_throws_made, fta |-> stats.free_throws_attempted,
     ast |-> stats.assists, reb |-> stats.rebounds, fls |-> stats.fouls]

\* C28: the totals finalize_game persists for a player equal the totals the
\* live aggregator computes for that player from the same ledger: points,
\* made and attempted shots of the three classes, assists, rebounds and fouls.
C28_LiveEqualsFinalized ==
    (last.op = "finalize_game" /\ last.ok) =>
        \A row \in Rows(player_game_stats) :
            LET live == get_player_stats(events, row.player_id)
            IN  LiveFields(row.stats) =
                  [points |-> live.points, fgm |-> live.fgm, fga |-> live.fga,
                   three_pm |-> live.three_pm, three_pa |-> live.three_pa,
                   ftm |-> live.ftm, fta |-> live.fta,
                   ast |-> live.ast, reb |-> live.reb, fls |-> live.fls]

\* the fold of finalize_game over the ledger: player -> counters
LedgerFold(evs) == accumulate_player_stats(evs, <<>>, EmptyDict)[2]

\* C29: after finalize_game the PlayerGameStats rows are exactly the fold of
\* the current ledger: a player has a row if and only if the ledger holds an
\* event of the player, and the row holds the fold of the player's events,
\* also when finalize_game runs again after events were deleted.
C29_RowsAreCurrentFold ==
    (last.op = "finalize_game" /\ last.ok) =>
        /\ {row.player_id : row \in Rows(player_game_stats)} = DOMAIN LedgerFold(events)
        /\ \A row \in Rows(player_game_stats) :
              row.player_id \in DOMAIN LedgerFold(events)
                 => row.stats = LedgerFold(events)[row.player_id]

(***************************************************************************)
(* Consistency of the registry's indexes                                   *)
(***************************************************************************)
\* ConnectionManager.get_connection_count
get_connection_count == Cardinality(DOMAIN active_connections)

\* ConnectionManager.get_active_matches: the game ids it lists
get_active_matches == {game_id \in DOMAIN rooms : Cardinality(rooms[game_id]) > 0}

RECURSIVE SpectatorSum(_)
SpectatorSum(games) ==
    IF games = {} THEN 0
    ELSE LET g == CHOOSE x \in games : TRUE
         IN  Cardinality(rooms[g]) + SpectatorSum(games \ {g})

====
